---- MODULE Spec2Model ----
(***************************************************************************)
(* Model of winning-chances-lichess (src/lib.rs): the per-file scanner     *)
(* `calculate`, the filter `timecontrol_qualifies`, the rounder            *)
(* `round_rating`, the `Aggregatable` merges and the driver                *)
(* `calculate_from_files`.                                                 *)
(*                                                                         *)
(* A line of a record file is a record [tag, val]: `tag` is the prefix the *)
(* scanner dispatches on ("" for a line that does not start with "["),     *)
(* `quoted` tells whether the line holds a double quote, and `val` is the  *)
(* text between its first and second double quote, as a sequence of        *)
(* one-character strings.  A fallible call yields Ok(v) or Err; Err is the *)
(* panic of the `unwrap` applied to it.                                    *)
(***************************************************************************)
EXTENDS Integers, Sequences, FiniteSets, TLC

\* ------------------------------------------------------------------ bounds
\* Lines read over all files of a run (for files of arbitrary lines, and
\* for files made of whole records), files given to the driver, largest
\* rating fed to the rounder.
MaxLines == 5
MaxRecordLines == 11
MaxFiles == 2
MaxRating == 3500

\* ------------------------------------------------------- program constants
\* i32::MAX, the width of `initial`, `increment`, `estimate` and the ratings.
I32Max == 2147483647
I32Min == -I32Max - 1
\* 2^16: i32 arithmetic is carried out on 16-bit halves so that no
\* intermediate value leaves the range of the model checker's integers.
Half == 2^16
\* 100 * 2^23: the scaled dividend of an f32 quotient by 100.0 is normalised
\* into [100 * 2^23, 100 * 2^24), i.e. to a 24-bit significand.
F32Norm == 100 * 2^23

Ok(v) == [ok |-> TRUE, v |-> v]
Err == [ok |-> FALSE, v |-> "panic"]

\* ------------------------------------------------------------ text helpers
DigitChars == <<"0", "1", "2", "3", "4", "5", "6", "7", "8", "9">>

IsDigit(c) == \E d \in 1..10 : DigitChars[d] = c

DigitVal(c) == (CHOOSE d \in 1..10 : DigitChars[d] = c) - 1

\* Decimal text of a natural number (how the input files spell numbers).
RECURSIVE Digits(_)
Digits(n) ==
    IF n < 10 THEN <<DigitChars[n + 1]>>
    ELSE Digits(n \div 10) \o <<DigitChars[(n % 10) + 1]>>

\* str::contains("+")
Contains(s, c) == \E i \in 1..Len(s) : s[i] = c

\* str::split("+"): the pieces between the separators, empty pieces kept.
RECURSIVE SplitFrom(_, _, _, _)
SplitFrom(s, c, i, cur) ==
    IF i > Len(s) THEN <<cur>>
    ELSE IF s[i] = c THEN <<cur>> \o SplitFrom(s, c, i + 1, <<>>)
    ELSE SplitFrom(s, c, i + 1, Append(cur, s[i]))

Split(s, c) == SplitFrom(s, c, 1, <<>>)

\* <i32 as FromStr>::from_str on the digits after the sign: checked
\* multiply by 10 and checked add (positive) or subtract (negative) of each
\* digit; any non-digit or overflow is an error.
RECURSIVE ParseDigits(_, _, _, _)
ParseDigits(s, i, acc, neg) ==
    IF i > Len(s) THEN Ok(acc)
    ELSE IF ~IsDigit(s[i]) THEN Err
    ELSE LET d == DigitVal(s[i]) IN
         IF neg
         THEN IF acc < (I32Min + d) \div 10 + (IF (I32Min + d) % 10 = 0 THEN 0 ELSE 1)
              THEN Err
              ELSE ParseDigits(s, i + 1, acc * 10 - d, neg)
         ELSE IF acc > (I32Max - d) \div 10
              THEN Err
              ELSE ParseDigits(s, i + 1, acc * 10 + d, neg)

\* str::parse::<i32>(): an optional sign, then at least one digit.
ParseI32(s) ==
    IF Len(s) = 0 THEN Err
    ELSE IF s[1] = "-" THEN (IF Len(s) = 1 THEN Err ELSE ParseDigits(s, 2, 0, TRUE))
    ELSE IF s[1] = "+" THEN (IF Len(s) = 1 THEN Err ELSE ParseDigits(s, 2, 0, FALSE))
    ELSE ParseDigits(s, 1, 0, FALSE)

\* --------------------------------------------------------- i32 arithmetic
\* Two's-complement halves of an i32 and back.
HiHalf(x) == (x \div Half) % Half
LoHalf(x) == x % Half
FromHalves(hi, lo) == IF hi >= Half \div 2 THEN (hi - Half) * Half + lo ELSE hi * Half + lo

\* k * a in i32 for a small non-negative literal k: whether the product
\* leaves the i32 range, and the wrapped product.
MulOverflows(k, a) ==
    \/ a > I32Max \div k
    \/ a < (I32Min \div k) + (IF I32Min % k = 0 THEN 0 ELSE 1)

WrappingMul(k, a) ==
    LET t == k * LoHalf(a)
    IN  FromHalves((k * HiHalf(a) + t \div Half) % Half, t % Half)

AddOverflows(a, b) ==
    \/ (b > 0 /\ a > I32Max - b)
    \/ (b < 0 /\ a < I32Min - b)

WrappingAdd(a, b) ==
    LET t == LoHalf(a) + LoHalf(b)
    IN  FromHalves((HiHalf(a) + HiHalf(b) + t \div Half) % Half, t % Half)

\* ----------------------------------------------------- timecontrol_qualifies
\* `initial + 40 * increment` in i32.  With overflow checks (a debug build)
\* an overflowing multiply or add panics; without them (a release build) the
\* value wraps.
Estimate(initial, increment, overflow_checks) ==
    IF MulOverflows(40, increment) /\ overflow_checks THEN Err
    ELSE LET product == WrappingMul(40, increment)
         IN  IF AddOverflows(initial, product) /\ overflow_checks THEN Err
             ELSE Ok(WrappingAdd(initial, product))

\* (mutant) a value without "+" fails like any other malformed value.
timecontrol_qualifies_strict(timecontrol, overflow_checks) ==
    LET parts == Split(timecontrol, "+")
        initial == ParseI32(parts[1])
        increment == IF Len(parts) < 2 THEN Err ELSE ParseI32(parts[2])
    IN  IF ~initial.ok \/ ~increment.ok THEN Err
        ELSE LET estimate == Estimate(initial.v, increment.v, overflow_checks)
             IN  IF ~estimate.ok THEN Err ELSE Ok(estimate.v >= 480)

\* Ok(TRUE) / Ok(FALSE), or Err when one of the unwraps (or an overflow
\* check) panics.
timecontrol_qualifies(timecontrol, overflow_checks) ==
    IF ~Contains(timecontrol, "+") THEN Ok(FALSE)
    ELSE LET parts == Split(timecontrol, "+")
             initial == ParseI32(parts[1])
             increment == ParseI32(parts[2])
         IN  IF ~initial.ok \/ ~increment.ok THEN Err
             ELSE LET estimate == Estimate(initial.v, increment.v, overflow_checks)
                  IN  IF ~estimate.ok THEN Err ELSE Ok(estimate.v >= 480)

\* ------------------------------------------------------------- round_rating
\* f32 values are pairs <<m, p>> standing for m / p, p a power of two and m
\* a significand of at most 24 bits.
RECURSIVE F32Scale(_, _)
F32Scale(n, p) == IF n >= F32Norm THEN <<n, p>> ELSE F32Scale(2 * n, 2 * p)

\* t / 100.0 for an integer-valued f32 t > 0: the exact quotient rounded to
\* the nearest 24-bit significand, ties to even.
F32DivBy100(t) ==
    LET sc == F32Scale(t, 1)
        q == sc[1] \div 100
        r == sc[1] % 100
        m == IF 2 * r > 100 \/ (2 * r = 100 /\ q % 2 = 1) THEN q + 1 ELSE q
    IN  <<m, sc[2]>>

\* (mutant) truncation instead of rounding.
F32RoundTrunc(x) == x[1] \div x[2]

\* f32::round: to the nearest integer, halves away from zero.
F32Round(x) ==
    LET fl == x[1] \div x[2]
        fr == x[1] % x[2]
    IN  IF 2 * fr >= x[2] THEN fl + 1 ELSE fl

\* (mutant) the rating is taken as it is.
RoundMagnitudeUnrounded(r) == r

\* ((rating as f32 * 4.0 / 100.0).round() * 100.0 / 4.0) as i32.  The
\* conversion, the multiplications by 4.0 and 100.0 and the division by 4.0
\* are exact for |rating| < 2^22; the operations are odd functions.
RoundMagnitude(r) == IF r = 0 THEN 0 ELSE (F32Round(F32DivBy100(r * 4)) * 100) \div 4

round_rating(rating) ==
    IF rating < 0 THEN -RoundMagnitude(-rating) ELSE RoundMagnitude(rating)

\* ---------------------------------------------------------------- aggregate
EmptyDataset == [k \in {} |-> [value |-> 0, total |-> 0]]

EmptyWDL == [wins |-> EmptyDataset, draws |-> EmptyDataset, losses |-> EmptyDataset]

\* (mutant) the totals are not added.
DatapointAggregateValueOnly(self, other) ==
    [value |-> self.value + other.value, total |-> self.total]

\* impl Aggregatable for Datapoint
DatapointAggregate(self, other) ==
    [value |-> self.value + other.value, total |-> self.total + other.total]

\* (mutant) a key held by both sides takes the other side's Datapoint.
DatasetStepOverwrite(new_set, other, key) ==
    IF key \notin DOMAIN new_set
    THEN new_set @@ (key :> other[key])
    ELSE [new_set EXCEPT ![key] = other[key]]

\* One iteration of `for key in other.keys()`.
DatasetStep(new_set, other, key) ==
    IF key \notin DOMAIN new_set
    THEN new_set @@ (key :> other[key])
    ELSE [new_set EXCEPT ![key] = DatapointAggregate(new_set[key], other[key])]

RECURSIVE DatasetLoop(_, _, _)
DatasetLoop(new_set, other, keys) ==
    IF keys = {} THEN new_set
    ELSE LET key == CHOOSE k \in keys : TRUE
         IN  DatasetLoop(DatasetStep(new_set, other, key), other, keys \ {key})

\* impl Aggregatable for Dataset
DatasetAggregate(self, other) == DatasetLoop(self, other, DOMAIN other)

\* impl Aggregatable for WDLData
WDLAggregate(self, other) ==
    [wins |-> DatasetAggregate(self.wins, other.wins),
     draws |-> DatasetAggregate(self.draws, other.draws),
     losses |-> DatasetAggregate(self.losses, other.losses)]

\* impl Not for GameResult
Not(result) ==
    CASE result = "Win" -> "Loss"
      [] result = "Loss" -> "Win"
      [] OTHER -> result

\* ------------------------------------------------------------------ inputs
\* Lines of the record files.  Numbers are spelled in decimal.
TagLine(tag, val) == [tag |-> tag, quoted |-> TRUE, val |-> val]
\* A tag line without any double quote, e.g. `[TimeControl`.
BareLine(tag) == [tag |-> tag, quoted |-> FALSE, val |-> <<>>]
\* A line that does not start with "[" (blank line, move text).
BodyLine == [tag |-> "", quoted |-> FALSE, val |-> <<>>]
\* No line read yet in the current file.
NoLine == [tag |-> "none", quoted |-> FALSE, val |-> <<>>]
\* The read of a line failed.
FailedLine == [tag |-> "error", quoted |-> FALSE, val |-> <<>>]

TCText(initial, increment) == Digits(initial) \o <<"+">> \o Digits(increment)

\* <<initial, increment>> pairs of the time controls in the scanned files.
TCPairs == {<<600, 5>>, <<419, 0>>}
\* Time-control values that are not of the form initial+increment.
TCOdd == {<<"-">>, <<"4", "8", "0">>, <<"x", "+", "0">>}
TCLines ==
    {TagLine("[TimeControl", TCText(p[1], p[2])) : p \in TCPairs}
        \cup {TagLine("[TimeControl", v) : v \in TCOdd}
        \cup {BareLine("[TimeControl")}

\* The wider family the filter alone is run on: the boundary of the
\* threshold and the boundary of the i32 range.
WideInitials == {0, 419, 439, 440, 479, 480, I32Max}
WideIncrements == {0, 1, 11, 12, 60000000}
TCWidePairs == {<<i, n>> : i \in WideInitials, n \in WideIncrements}
TCWideOdd ==
    {<<"-">>, <<"4", "8", "0">>, <<"x", "+", "0">>, <<"4", "8", "0", "+">>,
     <<"+", "4", "8", "0">>, <<"4", "8", "0", "+", "0", "+", "x">>}
TCWideLines ==
    {TagLine("[TimeControl", TCText(p[1], p[2])) : p \in TCWidePairs}
        \cup {TagLine("[TimeControl", v) : v \in TCWideOdd}

WhiteInputs == {1700, 1712}
BlackInputs == {1600, 1700, 1713}
RatingInputs == WhiteInputs \cup BlackInputs
WhiteLines == {TagLine("[WhiteElo", v) : v \in {Digits(n) : n \in WhiteInputs} \cup {<<"?">>}}
BlackLines == {TagLine("[BlackElo", v) : v \in {Digits(n) : n \in BlackInputs} \cup {<<"?">>}}

ResultTexts ==
    {<<"1", "-", "0">>, <<"1", "/", "2", "-", "1", "/", "2">>, <<"0", "-", "1">>,
     <<"*">>, <<"0", "-", "0">>}
ResultLines == {TagLine("[Result", v) : v \in ResultTexts}

OtherLines == {TagLine("[Event", <<"x">>)}

\* ------------------------------------------------------------------- state
VARIABLES
    pc,                \* "driver" (the loop of calculate_from_files), "scan"
                       \* (the loop of calculate), "presented", "panicked"
    files,             \* number of paths the iterator `files` yields
    files_done,        \* paths consumed from `files`
    total_data,        \* calculate_from_files: total_data
    presented,         \* the arguments wdldata_presentation was called with
    scans,             \* history: the values calculate returned, in order
    wins, draws, losses,          \* calculate: the three Datasets
    skip, rating1, rating2, result_white_pov,   \* calculate: parse state
    lines_read,        \* lines consumed so far, over all files
    input_form,        \* what the files of the run hold: "any" lines, or
                       \* "records" of the four tags in the order
                       \* TimeControl, WhiteElo, BlackElo, Result, then body
                       \* lines
    line,              \* the line the last step read
    \* history of the current file, kept to state the claims
    own,               \* the tags the current record itself carries
    counted,           \* "no", or a body line of the current record was
                       \* classified: "just" now, or "before" the last line
    games,             \* bucket -> number of games of the file that carry
                       \* all four tags, qualify, are finished, have unequal
                       \* ratings and fall into the bucket
    complete,          \* every record ended so far carried all four tags
    qualifying_tags,   \* time-control tags of the file read so far whose
                       \* value qualifies
    follows_counted,   \* the record before the current one was classified
    \* the functions applied on their own
    arg_a, arg_b, arg_c,          \* three WDLData values
    merged,            \* <<>>, or the one record of their merges
    rating_in,         \* an argument of round_rating
    rating_out         \* <<>>, or the one result of round_rating

scan_vars == <<wins, draws, losses, skip, rating1, rating2, result_white_pov>>
hist_vars == <<own, counted, games, complete, qualifying_tags, follows_counted>>
run_vars ==
    <<pc, files, files_done, total_data, presented, scans, scan_vars, lines_read,
      input_form, line, hist_vars>>
fn_vars == <<arg_a, arg_b, arg_c, merged, rating_in, rating_out>>
vars == <<run_vars, fn_vars>>

NoTags == [tc |-> "none", white |-> -1, black |-> -1, result |-> "none"]

\* calculate, lines 106-118: the locals before the first line.
ScanInit ==
    /\ wins = EmptyDataset /\ draws = EmptyDataset /\ losses = EmptyDataset
    /\ skip = FALSE /\ rating1 = 0 /\ rating2 = 0
    /\ result_white_pov = "Unknown"
    /\ lines_read = 0 /\ line = NoLine
    /\ own = NoTags /\ counted = "no" /\ games = EmptyDataset /\ complete = TRUE
    /\ qualifying_tags = 0 /\ follows_counted = FALSE

\* The history of a file ends with the file.
HistReset ==
    /\ own' = NoTags /\ counted' = "no" /\ games' = EmptyDataset /\ complete' = TRUE
    /\ qualifying_tags' = 0 /\ follows_counted' = FALSE

\* (mutant) the parse state outlives the call.
ScanResetKeepsParseState ==
    /\ wins' = EmptyDataset /\ draws' = EmptyDataset /\ losses' = EmptyDataset
    /\ UNCHANGED <<skip, rating1, rating2, result_white_pov>>
    /\ HistReset

\* calculate returns (or unwinds): its locals are gone, and the next call
\* starts from those of lines 106-118.
ScanReset ==
    /\ wins' = EmptyDataset /\ draws' = EmptyDataset /\ losses' = EmptyDataset
    /\ skip' = FALSE /\ rating1' = 0 /\ rating2' = 0
    /\ result_white_pov' = "Unknown"
    /\ HistReset

\* calculate_from_files, lines 94-98.
RunInit ==
    /\ pc = "driver" /\ files_done = 0
    /\ files \in 0..MaxFiles
    /\ input_form \in {"any", "records"}
    /\ total_data = EmptyWDL /\ presented = <<>> /\ scans = <<>>
    /\ ScanInit

FnIdle ==
    /\ arg_a = EmptyWDL /\ arg_b = EmptyWDL /\ arg_c = EmptyWDL /\ merged = <<>>
    /\ rating_in = 0 /\ rating_out = <<>>

Init == RunInit /\ FnIdle

\* A panic: the process ends, every value is dropped, nothing is presented.
\* `line` keeps the line that was being handled.
Panic(l) ==
    /\ pc' = "panicked"
    /\ line' = l
    /\ lines_read' = 0
    /\ UNCHANGED <<input_form, fn_vars>>
    /\ total_data' = EmptyWDL /\ scans' = <<>>
    /\ UNCHANGED <<files, files_done, presented>>
    /\ ScanReset

\* --------------------------------------------- what a record says of its game
\* The reading of the input that the claims are stated against; it uses no
\* definition of the scanner.
Nearest25(r) == ((r + 12) \div 25) * 25

MathQualifies(initial, increment) ==
    initial >= 480 \/ increment >= 12 \/ initial + 40 * increment >= 480

GameTC(val) ==
    IF \E p \in TCPairs \cup TCWidePairs : TCText(p[1], p[2]) = val /\ MathQualifies(p[1], p[2])
    THEN "yes" ELSE "no"

GameRating(val) == CHOOSE n \in RatingInputs : Digits(n) = val

GameResult(val) ==
    CASE val = <<"1", "-", "0">> -> "Win"
      [] val = <<"1", "/", "2", "-", "1", "/", "2">> -> "Draw"
      [] val = <<"0", "-", "1">> -> "Loss"
      [] val = <<"*">> -> "Unfinished"

IsTag(l) == l.tag \notin {"", "none"}

\* A tag line after a body line opens a new record.
OwnBase == IF line.tag = "" THEN NoTags ELSE own

HasAllTags(o) ==
    o.tc # "none" /\ o.white # -1 /\ o.black # -1 /\ o.result # "none"

IsGame(o) ==
    /\ HasAllTags(o)
    /\ o.tc = "yes" /\ o.result # "Unfinished" /\ o.white # o.black

GameBucket(o) ==
    LET lo == IF o.white < o.black THEN o.white ELSE o.black
        hi == IF o.white < o.black THEN o.black ELSE o.white
    IN  Nearest25(hi) - Nearest25(lo)

Bump(f, k) == IF k \in DOMAIN f THEN [f EXCEPT ![k] = @ + 1] ELSE f @@ (k :> 1)

\* After a tag line: whether the record it belongs to follows a classified
\* one.
FollowsCounted == IF line.tag = "" THEN counted # "no" ELSE follows_counted

\* The history after a tag line that sets `field` of its record.
TagHistory(field, value) ==
    /\ follows_counted' = FollowsCounted
    /\ own' = [OwnBase EXCEPT ![field] = value]
    /\ counted' = "no"
    /\ qualifying_tags' =
          IF field = "tc" /\ value = "yes" THEN qualifying_tags + 1 ELSE qualifying_tags
    /\ UNCHANGED <<games, complete>>

\* The history after a body line; `classified` tells whether the scanner
\* counted it.  The first body line after a tag line ends the record.
BodyHistory(classified) ==
    /\ counted' = IF classified THEN "just"
                  ELSE IF line.tag = "" /\ counted # "no" THEN "before" ELSE "no"
    /\ own' = own
    /\ UNCHANGED <<qualifying_tags, follows_counted>>
    /\ IF IsTag(line)
       THEN /\ games' = IF IsGame(own) THEN Bump(games, GameBucket(own)) ELSE games
            /\ complete' = (complete /\ HasAllTags(own))
       ELSE UNCHANGED <<games, complete>>

\* ------------------------------------------------------------------ calculate
\* line.split("\"").nth(1): None when the line holds no double quote.
QuotedValue(l) == IF l.quoted THEN Ok(l.val) ELSE Err

\* (mutant) the filter's verdict is ignored.
SkipForNever(qualified_tc) == FALSE

\* line 126: skip = !qualified_tc
SkipFor(qualified_tc) == ~qualified_tc

\* (mutant) the tokens are read from Black's side.
MatchResultBlackPov(result_str) ==
    CASE result_str = <<"1", "-", "0">> -> Ok("Loss")
      [] result_str = <<"1", "/", "2", "-", "1", "/", "2">> -> Ok("Draw")
      [] result_str = <<"0", "-", "1">> -> Ok("Win")
      [] result_str = <<"*">> -> Ok("Unfinished")
      [] OTHER -> Err

\* lines 138-144: the match on the result token.
MatchResult(result_str) ==
    CASE result_str = <<"1", "-", "0">> -> Ok("Win")
      [] result_str = <<"1", "/", "2", "-", "1", "/", "2">> -> Ok("Draw")
      [] result_str = <<"0", "-", "1">> -> Ok("Loss")
      [] result_str = <<"*">> -> Ok("Unfinished")
      [] OTHER -> Err

\* (mutant) equal ratings are not discarded.
ShouldClassifyEqualRatings(is_tag, skip_, result, r1, r2) ==
    ~is_tag /\ ~skip_ /\ result # "Unfinished"

\* (mutant) the skip flag is not consulted.
ShouldClassifyIgnoresSkip(is_tag, skip_, result, r1, r2) ==
    ~is_tag /\ result # "Unfinished" /\ r1 # r2

\* lines 147-148: the condition of the classification branch.
ShouldClassify(is_tag, skip_, result, r1, r2) ==
    ~is_tag /\ ~skip_ /\ result # "Unfinished" /\ r1 # r2

Min(a, b) == IF a <= b THEN a ELSE b
Max(a, b) == IF a >= b THEN a ELSE b

\* (mutant) the raw difference is rounded.
RatingDiffRaw(r1, r2) == round_rating(Max(r1, r2) - Min(r1, r2))

\* lines 150-152
RatingDiff(r1, r2) == round_rating(Max(r1, r2)) - round_rating(Min(r1, r2))

\* (mutant) White's result is taken whoever is lower rated.
ResultWhitePov(r1, r2, result) == result

\* lines 154-160
ResultLowestPov(r1, r2, result) ==
    IF Min(r1, r2) = r1 THEN result ELSE Not(result)

\* lines 162-165, 166-169, 170-173: insert (0, 0) when the key is new, then
\* total += 1.
CountWins(ds, k) ==
    LET with == IF k \notin DOMAIN ds THEN ds @@ (k :> [value |-> 0, total |-> 0]) ELSE ds
    IN  [with EXCEPT ![k].total = @ + 1]

\* (mutant) the total of draws is not incremented on the insertion.
CountDrawsLate(ds, k) ==
    IF k \notin DOMAIN ds THEN ds @@ (k :> [value |-> 0, total |-> 0])
    ELSE [ds EXCEPT ![k].total = @ + 1]

CountDraws(ds, k) ==
    LET with == IF k \notin DOMAIN ds THEN ds @@ (k :> [value |-> 0, total |-> 0]) ELSE ds
    IN  [with EXCEPT ![k].total = @ + 1]

\* (mutant) a new key is inserted and its total left at 0.
CountLossesInsertOnly(ds, k) ==
    IF k \notin DOMAIN ds THEN ds @@ (k :> [value |-> 0, total |-> 0])
    ELSE [ds EXCEPT ![k].total = @ + 1]

CountLosses(ds, k) ==
    LET with == IF k \notin DOMAIN ds THEN ds @@ (k :> [value |-> 0, total |-> 0]) ELSE ds
    IN  [with EXCEPT ![k].total = @ + 1]

\* lines 175-180: the Dataset the match selects; any other result panics.
RelevantSet(result_lowest_pov) ==
    CASE result_lowest_pov = "Win" -> Ok("wins")
      [] result_lowest_pov = "Draw" -> Ok("draws")
      [] result_lowest_pov = "Loss" -> Ok("losses")
      [] OTHER -> Err

\* (mutant) every Dataset takes the success.
AddValueAlways(ds, k, selected) == [ds EXCEPT ![k].value = @ + 1]

\* line 181
AddValue(ds, k, selected) == IF selected THEN [ds EXCEPT ![k].value = @ + 1] ELSE ds

\* (mutant) skip is left as it was.
SkipAfterClassificationOff == FALSE

\* line 182
SkipAfterClassification == TRUE

\* The loop of line 120 has a next line; the files of a run hold at most
\* MaxLines lines in all.
Reading ==
    /\ pc = "scan"
    /\ lines_read < (IF input_form = "any" THEN MaxLines ELSE MaxRecordLines)

\* The input: whether the file at hand may hold a line of prefix `tag` after
\* the line read last.
MayFollow(tag) ==
    \/ input_form = "any"
    \/ tag = "[TimeControl" /\ line.tag \in {"none", ""}
    \/ tag = "[WhiteElo" /\ line.tag = "[TimeControl"
    \/ tag = "[BlackElo" /\ line.tag = "[WhiteElo"
    \/ tag = "[Result" /\ line.tag = "[BlackElo"
    \/ tag = "" /\ line.tag \in {"[Result", ""}

Advance(l) ==
    /\ pc' = "scan"
    /\ line' = l
    /\ lines_read' = lines_read + 1
    /\ UNCHANGED <<files, files_done, total_data, presented, scans, input_form, fn_vars>>

\* lines 123-131.  The counter `processed` only drives a progress message
\* and is left out.  `overflow_checks` is the build's setting.
ReadTimeControl(l, overflow_checks) ==
    /\ Reading /\ MayFollow(l.tag)
    /\ LET tc == QuotedValue(l)
           qualified_tc == IF tc.ok THEN timecontrol_qualifies(tc.v, overflow_checks) ELSE Err
       IN  IF ~qualified_tc.ok THEN Panic(l)
           ELSE /\ skip' = SkipFor(qualified_tc.v)
                /\ Advance(l)
                /\ TagHistory("tc", GameTC(l.val))
                /\ UNCHANGED <<wins, draws, losses, rating1, rating2, result_white_pov>>

\* lines 132-133
ReadWhiteElo(l) ==
    /\ Reading /\ MayFollow(l.tag)
    /\ LET text == QuotedValue(l)
           parsed == IF text.ok THEN ParseI32(text.v) ELSE Err
       IN  IF ~parsed.ok THEN Panic(l)
           ELSE /\ rating1' = parsed.v
                /\ Advance(l)
                /\ TagHistory("white", GameRating(l.val))
                /\ UNCHANGED <<wins, draws, losses, skip, rating2, result_white_pov>>

\* lines 134-135
ReadBlackElo(l) ==
    /\ Reading /\ MayFollow(l.tag)
    /\ LET text == QuotedValue(l)
           parsed == IF text.ok THEN ParseI32(text.v) ELSE Err
       IN  IF ~parsed.ok THEN Panic(l)
           ELSE /\ rating2' = parsed.v
                /\ Advance(l)
                /\ TagHistory("black", GameRating(l.val))
                /\ UNCHANGED <<wins, draws, losses, skip, rating1, result_white_pov>>

\* lines 136-145
ReadResult(l) ==
    /\ Reading /\ MayFollow(l.tag)
    /\ LET result_str == QuotedValue(l)
           matched == IF result_str.ok THEN MatchResult(result_str.v) ELSE Err
       IN  IF ~matched.ok THEN Panic(l)
           ELSE /\ result_white_pov' = matched.v
                /\ Advance(l)
                /\ TagHistory("result", GameResult(l.val))
                /\ UNCHANGED <<wins, draws, losses, skip, rating1, rating2>>

\* (mutant) any other tag line forgets the result read so far.
ReadOtherTagResets(l) ==
    /\ Reading /\ MayFollow(l.tag)
    /\ Advance(l)
    /\ own' = OwnBase /\ counted' = "no" /\ follows_counted' = FollowsCounted
    /\ result_white_pov' = "Unknown"
    /\ UNCHANGED <<wins, draws, losses, skip, rating1, rating2, games, complete,
                   qualifying_tags>>

\* A line starting with "[" that none of the four prefixes matches.
ReadOtherTag(l) ==
    /\ Reading /\ MayFollow(l.tag)
    /\ Advance(l)
    /\ own' = OwnBase /\ counted' = "no" /\ follows_counted' = FollowsCounted
    /\ UNCHANGED <<scan_vars, games, complete, qualifying_tags>>

\* lines 147-183 for a line that does not start with "[".
ReadBody ==
    /\ Reading /\ MayFollow(BodyLine.tag)
    /\ IF ShouldClassify(FALSE, skip, result_white_pov, rating1, rating2)
       THEN LET rating_diff == RatingDiff(rating1, rating2)
                result_lowest_pov == ResultLowestPov(rating1, rating2, result_white_pov)
                relevant_set == RelevantSet(result_lowest_pov)
            IN  IF ~relevant_set.ok THEN Panic(BodyLine)
                ELSE /\ wins' = AddValue(CountWins(wins, rating_diff), rating_diff,
                                         relevant_set.v = "wins")
                     /\ draws' = AddValue(CountDraws(draws, rating_diff), rating_diff,
                                          relevant_set.v = "draws")
                     /\ losses' = AddValue(CountLosses(losses, rating_diff), rating_diff,
                                           relevant_set.v = "losses")
                     /\ skip' = SkipAfterClassification
                     /\ Advance(BodyLine)
                     /\ BodyHistory(TRUE)
                     /\ UNCHANGED <<rating1, rating2, result_white_pov>>
       ELSE /\ Advance(BodyLine)
            /\ BodyHistory(FALSE)
            /\ UNCHANGED scan_vars

\* line 121: `l.unwrap()` on a read error.
ReadError == pc = "scan" /\ Panic(FailedLine)

\* lines 186-190 and line 100: the scan returns at the end of the file and
\* the driver merges its result into total_data.
EndOfFile ==
    /\ pc = "scan"
    /\ total_data' = WDLAggregate([wins |-> wins, draws |-> draws, losses |-> losses],
                                  total_data)
    /\ scans' = Append(scans, [wins |-> wins, draws |-> draws, losses |-> losses])
    /\ files_done' = files_done + 1
    /\ pc' = "driver"
    /\ line' = NoLine
    /\ ScanReset
    /\ UNCHANGED <<files, presented, lines_read, input_form, fn_vars>>

\* ------------------------------------------------------- calculate_from_files
\* lines 99-100 and 112-113: the next path is opened, or File::open fails.
\* (mutant) the loop may be left before the last path.
ExhaustedEarly == TRUE

\* line 99: `for path in files` has no further path.
Exhausted == files_done = files

OpenFile(exists) ==
    /\ pc = "driver" /\ ~Exhausted
    /\ IF exists
       THEN /\ pc' = "scan"
            /\ UNCHANGED <<files, files_done, total_data, presented, scans, scan_vars,
                           lines_read, input_form, line, hist_vars, fn_vars>>
       ELSE Panic(NoLine)

\* line 102: the iterator is exhausted.
Present ==
    /\ pc = "driver" /\ Exhausted
    /\ pc' = "presented"
    /\ presented' = <<total_data>>
    /\ UNCHANGED <<files, files_done, total_data, scans, scan_vars, lines_read,
                   input_form, line, hist_vars, fn_vars>>

Next ==
    \/ \E exists \in BOOLEAN : OpenFile(exists)
    \/ \E l \in TCLines, overflow_checks \in BOOLEAN : ReadTimeControl(l, overflow_checks)
    \/ \E l \in WhiteLines : ReadWhiteElo(l)
    \/ \E l \in BlackLines : ReadBlackElo(l)
    \/ \E l \in ResultLines : ReadResult(l)
    \/ \E l \in OtherLines : ReadOtherTag(l)
    \/ ReadBody
    \/ ReadError
    \/ EndOfFile
    \/ Present

Spec == Init /\ [][Next]_vars

\* The filter alone: files made of time-control lines of the wide family.
NextTC ==
    \/ \E exists \in BOOLEAN : OpenFile(exists)
    \/ \E l \in TCWideLines, overflow_checks \in BOOLEAN : ReadTimeControl(l, overflow_checks)
    \/ EndOfFile

SpecTC == Init /\ [][NextTC]_vars

\* ------------------------------------------------- the merge, on its own
\* Datasets the merge is applied to: empty, one key, two keys, with a key
\* in common and a key on one side only.
MergeDatasets ==
    {EmptyDataset,
     (0 :> [value |-> 1, total |-> 1]),
     (0 :> [value |-> 2, total |-> 3]) @@ (25 :> [value |-> 0, total |-> 1])}

MergeInputs == [wins : MergeDatasets, draws : MergeDatasets, losses : MergeDatasets]

InitMerge ==
    /\ RunInit /\ files = 0
    /\ arg_a \in MergeInputs /\ arg_b \in MergeInputs /\ arg_c \in MergeInputs
    /\ merged = <<>>
    /\ rating_in = 0 /\ rating_out = <<>>

\* a.aggregate(b).aggregate(c), a.aggregate(b.aggregate(c)), a.aggregate(b),
\* b.aggregate(a), a.aggregate(empty)
Aggregate ==
    /\ merged = <<>>
    /\ merged' = <<[ab_c |-> WDLAggregate(WDLAggregate(arg_a, arg_b), arg_c),
                    a_bc |-> WDLAggregate(arg_a, WDLAggregate(arg_b, arg_c)),
                    ab |-> WDLAggregate(arg_a, arg_b),
                    ba |-> WDLAggregate(arg_b, arg_a),
                    a_e |-> WDLAggregate(arg_a, EmptyWDL)]>>
    /\ UNCHANGED <<run_vars, arg_a, arg_b, arg_c, rating_in, rating_out>>

NextMerge == Aggregate

SpecMerge == InitMerge /\ [][NextMerge]_vars

\* ------------------------------------------------ the rounder, on its own
InitRound ==
    /\ RunInit /\ files = 0
    /\ arg_a = EmptyWDL /\ arg_b = EmptyWDL /\ arg_c = EmptyWDL /\ merged = <<>>
    /\ rating_in \in 0..MaxRating /\ rating_out = <<>>

Round ==
    /\ rating_out = <<>>
    /\ rating_out' = <<round_rating(rating_in)>>
    /\ UNCHANGED <<run_vars, arg_a, arg_b, arg_c, merged, rating_in>>

NextRound == Round

SpecRound == InitRound /\ [][NextRound]_vars

\* ====================================================================== claims

\* C1: the WDLData merge is associative and commutative: merge(merge(a,b),c)
\* and merge(a,merge(b,c)) hold the same bucket -> (successes,total) contents
\* in wins, draws and losses, and so do merge(a,b) and merge(b,a).
C1_MergeAssocComm ==
    merged # <<>> =>
        /\ merged[1].ab_c = merged[1].a_bc
        /\ merged[1].ab = merged[1].ba

\* a and b share bucket 0 with different Datapoints, b alone holds bucket 25.
C1_Witness ==
    /\ merged # <<>>
    /\ arg_a.wins = (0 :> [value |-> 1, total |-> 1])
    /\ DOMAIN arg_b.wins = {0, 25}
    /\ arg_c.wins # EmptyDataset
    /\ merged[1].ab.wins[0] = [value |-> 3, total |-> 4]
    /\ merged[1].ab_c.wins[0].total > 4

\* ---- vocabulary of the claims about the scan
\* The step reads line l: the scan goes on to the next line, or panics on l.
ReadsLine(l) ==
    /\ pc = "scan" /\ line' = l
    /\ pc' = "panicked" \/ (pc' = "scan" /\ lines_read' = lines_read + 1)

Datasets == <<wins, draws, losses>>

TotalOf(ds, k) == IF k \in DOMAIN ds THEN ds[k].total ELSE 0
ValueOf(ds, k) == IF k \in DOMAIN ds THEN ds[k].value ELSE 0

\* ds with one more game in bucket k, a success when `success`.
OneMore(ds, k, success) ==
    [j \in DOMAIN ds \cup {k} |->
        IF j = k
        THEN [value |-> ValueOf(ds, k) + (IF success THEN 1 ELSE 0),
              total |-> TotalOf(ds, k) + 1]
        ELSE ds[j]]

\* The state in which a body line is classified, as the claims give it.
Classifiable == ~skip /\ result_white_pov # "Unfinished" /\ rating1 # rating2

\* The result seen by the lower rated player.
LowerRatedResult ==
    IF rating1 < rating2 THEN result_white_pov
    ELSE CASE result_white_pov = "Win" -> "Loss"
           [] result_white_pov = "Loss" -> "Win"
           [] OTHER -> result_white_pov

KeysOf(d) == DOMAIN d.wins \cup DOMAIN d.draws \cup DOMAIN d.losses

TotalsAgree(d) ==
    \A k \in KeysOf(d) :
        /\ k \in DOMAIN d.wins /\ k \in DOMAIN d.draws /\ k \in DOMAIN d.losses
        /\ d.wins[k].total = d.draws[k].total
        /\ d.draws[k].total = d.losses[k].total

Scanned == [wins |-> wins, draws |-> draws, losses |-> losses]

\* C2: in the accumulator of a scan (whichever line ends the file), in the
\* merge of the scans done so far and in what is presented, every bucket
\* key has the same total in wins, draws and losses.
C2_TotalsAgree ==
    /\ pc = "scan" => TotalsAgree(Scanned)
    /\ TotalsAgree(total_data)
    /\ \A i \in 1..Len(presented) : TotalsAgree(presented[i])

\* Two files were merged, each with a game in the same bucket, and
\* presented.
C2_Witness ==
    /\ files_done = 2 /\ pc = "presented"
    /\ \E k \in KeysOf(presented[1]) :
          presented[1].draws[k].total = 2 /\ presented[1].draws[k].value = 0

\* C3 (as claimed): a time-control value without "+", or with a field that
\* is no integer, aborts the scan.
SeparatorLess(val) == \A i \in 1..Len(val) : val[i] # "+"
NonIntegerTC == {<<"x", "+", "0">>}

C4_Classification ==
    [][(ReadsLine(BodyLine) /\ Classifiable /\ pc' = "scan")
          => /\ \E k \in DOMAIN wins' :
                   /\ wins' = OneMore(wins, k, LowerRatedResult = "Win")
                   /\ draws' = OneMore(draws, k, LowerRatedResult = "Draw")
                   /\ losses' = OneMore(losses, k, LowerRatedResult = "Loss")
             /\ LowerRatedResult \in {"Win", "Draw", "Loss"}
             /\ (rating1 = 1700 /\ rating2 = 1600 /\ result_white_pov = "Win"
                    /\ wins = EmptyDataset)
                  => /\ losses' = (100 :> [value |-> 1, total |-> 1])
                     /\ wins' = (100 :> [value |-> 0, total |-> 1])
                     /\ draws' = (100 :> [value |-> 0, total |-> 1])]_vars

\* The record [TimeControl "600+5"] [WhiteElo "1700"] [BlackElo "1600"]
\* [Result "1-0"] was classified.
C4_Witness ==
    /\ pc = "scan" /\ line = BodyLine /\ counted = "just"
    /\ own = [tc |-> "yes", white |-> 1700, black |-> 1600, result |-> "Win"]
    /\ losses = (100 :> [value |-> 1, total |-> 1])
    /\ wins = (100 :> [value |-> 0, total |-> 1])
    /\ draws = (100 :> [value |-> 0, total |-> 1])

\* C5: the bucket of a classified game is the nearest multiple of 25 of the
\* higher rating minus the nearest multiple of 25 of the lower rating (1712
\* against 1713 gives 25, not the rounded raw difference 0).
C5_BucketPerSide ==
    [][(ReadsLine(BodyLine) /\ Classifiable /\ pc' = "scan")
          => LET hi == IF rating1 > rating2 THEN rating1 ELSE rating2
                 lo == IF rating1 > rating2 THEN rating2 ELSE rating1
                 k == Nearest25(hi) - Nearest25(lo)
             IN  /\ TotalOf(wins', k) = TotalOf(wins, k) + 1
                 /\ \A j \in DOMAIN wins' \ {k} : TotalOf(wins', j) = TotalOf(wins, j)
                 /\ ({rating1, rating2} = {1712, 1713} => k = 25)]_vars

C5_Witness ==
    /\ pc = "scan" /\ line = BodyLine /\ counted = "just"
    /\ rating1 = 1712 /\ rating2 = 1713
    /\ DOMAIN wins = {25}

\* C6: a body line read while skip is true, or the result is Unfinished, or
\* the ratings are equal, changes none of the three Datasets and does not
\* stop the scan.
C6_DiscardChangesNothing ==
    [][(ReadsLine(BodyLine) /\ (skip \/ result_white_pov = "Unfinished" \/ rating1 = rating2))
          => pc' = "scan" /\ UNCHANGED Datasets]_vars

\* A qualifying, decisive game between equally rated players was read to
\* its body line and left the Datasets empty.
C6_Witness ==
    /\ pc = "scan" /\ line = BodyLine /\ counted = "no"
    /\ own = [tc |-> "yes", white |-> 1700, black |-> 1700, result |-> "Win"]
    /\ ~skip /\ wins = EmptyDataset /\ draws = EmptyDataset /\ losses = EmptyDataset

\* C7: once a body line of a record has been classified, every further body
\* line before the next tag line leaves the three Datasets unchanged.
C7_CountedOnce ==
    [][(ReadsLine(BodyLine) /\ line = BodyLine /\ counted # "no")
          => pc' = "scan" /\ UNCHANGED Datasets]_vars

\* Body lines were read after the one that classified the game.
C7_Witness ==
    /\ pc = "scan" /\ line = BodyLine /\ counted = "before"
    /\ \E k \in DOMAIN wins : wins[k].total = 1
    /\ ~(\E k \in DOMAIN wins : wins[k].total > 1)

\* C8 (as claimed): a time control "<initial>+<increment>" with non-negative
\* integer fields lets the scan go on with skip = ~(initial + 40 * increment
\* >= 480).
C8_FilterFormula ==
    [][\A p \in TCWidePairs :
          ReadsLine(TagLine("[TimeControl", TCText(p[1], p[2])))
              => pc' = "scan" /\ skip' = ~MathQualifies(p[1], p[2])]_vars

\* C10 (as claimed): after a scan the total of every bucket key is the
\* number of games of the file that qualify, are finished, have unequal
\* ratings and fall into the bucket.
CountOf(f, k) == IF k \in DOMAIN f THEN f[k] ELSE 0

TotalsCountGames ==
    /\ \A k \in KeysOf(Scanned) :
          /\ TotalOf(wins, k) = CountOf(games, k)
          /\ TotalOf(draws, k) = CountOf(games, k)
          /\ TotalOf(losses, k) = CountOf(games, k)

C10_TotalsCountGames == pc = "scan" => TotalsCountGames

\* C10 (amended): in a file whose records all carry their own time-control,
\* White-rating, Black-rating and result tag, the total of every bucket key
\* is the number of such games, and every such game's bucket is a key.
C10_TotalsCountTaggedGames ==
    (pc = "scan" /\ complete) => (TotalsCountGames /\ DOMAIN games \subseteq DOMAIN wins)

\* A file of two whole records: both games fall into bucket 100 and both
\* are counted.
C10_Witness ==
    /\ pc = "scan" /\ complete /\ line = BodyLine
    /\ games = (100 :> 2)
    /\ TotalOf(wins, 100) = 2
    /\ own.tc = "yes"

\* C8, within the range of i32: for the pairs whose estimate does not
\* overflow, the filter does answer initial + 40 * increment >= 480 and the
\* tag sets skip to its negation.
C8_WithinI32 ==
    [][\A p \in TCWidePairs :
          (ReadsLine(TagLine("[TimeControl", TCText(p[1], p[2])))
             /\ p[2] <= I32Max \div 40 /\ p[1] <= I32Max - 40 * p[2])
              => pc' = "scan" /\ skip' = ~MathQualifies(p[1], p[2])]_vars

Abs(n) == IF n < 0 THEN -n ELSE n

\* C9: for every rating in 0..MaxRating round_rating returns the multiple of
\* 25 nearest to the rating: a multiple of 25, at most 12 away, no other
\* multiple of 25 closer; 1712->1700, 1713->1725, 848->850, 2093->2100.
C9_RoundNearest ==
    rating_out # <<>> =>
        LET r == rating_out[1] IN
        /\ r % 25 = 0
        /\ Abs(r - rating_in) <= 12
        /\ \A m \in 0..(MaxRating \div 25 + 1) :
               Abs(25 * m - rating_in) >= Abs(r - rating_in)
        /\ (rating_in = 1712 => r = 1700)
        /\ (rating_in = 1713 => r = 1725)
        /\ (rating_in = 848 => r = 850)
        /\ (rating_in = 2093 => r = 2100)

C9_Witness == rating_in = 1713 /\ rating_out = <<1725>>

\* C11: a result tag whose value is none of "1-0", "1/2-1/2", "0-1", "*"
\* aborts the scan at that line, and nothing is returned to the driver (no
\* merge, no presentation); the four tokens set the result, from White's
\* side, to Win, Draw, Loss and Unfinished.
C11_ResultTokens ==
    [][\A l \in ResultLines :
          ReadsLine(l) =>
              CASE l.val = <<"1", "-", "0">> ->
                       pc' = "scan" /\ result_white_pov' = "Win"
                [] l.val = <<"1", "/", "2", "-", "1", "/", "2">> ->
                       pc' = "scan" /\ result_white_pov' = "Draw"
                [] l.val = <<"0", "-", "1">> ->
                       pc' = "scan" /\ result_white_pov' = "Loss"
                [] l.val = <<"*">> ->
                       pc' = "scan" /\ result_white_pov' = "Unfinished"
                [] OTHER ->
                       /\ pc' = "panicked"
                       /\ files_done' = files_done /\ presented' = presented]_vars

\* The second file of a run held [Result "0-0"]: the run ended there.
C11_Witness ==
    /\ pc = "panicked" /\ line = TagLine("[Result", <<"0", "-", "0">>)
    /\ files_done = 1 /\ presented = <<>>

\* C12: the presentation runs only from the driver's loop, once every path
\* of the sequence has been scanned and merged, and is handed the merged
\* accumulator; a file that cannot be opened or a fatal line ends the run on
\* the spot: no step follows the abort, so nothing is ever presented.
C12_NoPartialResults ==
    /\ [](presented # <<>> =>
             /\ pc = "presented"
             /\ files_done = files /\ Len(scans) = files
             /\ presented = <<total_data>>)
    /\ [][presented' # presented => (pc = "driver" /\ pc' = "presented")]_vars
    /\ [](pc = "panicked" => presented = <<>>)
    /\ [][pc # "panicked" /\ pc # "presented"]_vars

\* The second of two files could not be opened, after the first had been
\* scanned and merged: the run ended with nothing presented.
C12_Witness ==
    /\ pc = "panicked" /\ line = NoLine
    /\ files = 2 /\ files_done = 1 /\ presented = <<>>

\* ---- vocabulary of the claims about the merge
\* The key-wise union of two Datasets, Datapoints of a common key added
\* field by field.
MergeRef(x, y) ==
    [k \in DOMAIN x \cup DOMAIN y |->
        IF k \in DOMAIN x /\ k \in DOMAIN y
        THEN [value |-> x[k].value + y[k].value, total |-> x[k].total + y[k].total]
        ELSE IF k \in DOMAIN x THEN x[k] ELSE y[k]]

MergeRefWDL(a, b) ==
    [wins |-> MergeRef(a.wins, b.wins),
     draws |-> MergeRef(a.draws, b.draws),
     losses |-> MergeRef(a.losses, b.losses)]

\* The merge, from the empty accumulator, of results[order[1]],
\* results[order[2]], ...
RECURSIVE FoldRef(_, _)
FoldRef(results, order) ==
    IF order = <<>> THEN EmptyWDL
    ELSE MergeRefWDL(FoldRef(results, SubSeq(order, 1, Len(order) - 1)),
                     results[order[Len(order)]])

Orders(n) == {o \in [1..n -> 1..n] : \A i, j \in 1..n : o[i] = o[j] => i = j}

\* C13: what is presented is the merge, from the empty accumulator, of the
\* values the scans of the files returned, in whichever order the files are
\* taken; and every scan starts from the same parse state and empty
\* Datasets, so that a file's result depends on its own lines only.
C13_MergeOfIndependentScans ==
    /\ pc # "panicked" =>
          \A o \in Orders(Len(scans)) : FoldRef(scans, o) = total_data
    /\ presented # <<>> =>
          \A o \in Orders(Len(scans)) : <<FoldRef(scans, o)>> = presented
    /\ pc = "driver" =>
          /\ ~skip /\ rating1 = 0 /\ rating2 = 0 /\ result_white_pov = "Unknown"
          /\ wins = EmptyDataset /\ draws = EmptyDataset /\ losses = EmptyDataset

\* Two files with different, non-empty results were scanned, merged and
\* presented.
C13_Witness ==
    /\ pc = "presented" /\ Len(scans) = 2
    /\ scans[1] # scans[2] /\ scans[1] # EmptyWDL /\ scans[2] # EmptyWDL
    /\ presented = <<total_data>>

\* C14: merge(a, b) is, for wins, draws and losses each, the key-wise union
\* of the two Datasets: a common key holds the field-wise sum of its two
\* Datapoints, a key of one side only holds that side's Datapoint, no other
\* key appears; merge(a, empty) = a, and bucket 0 -> (1,1) merged with
\* bucket 0 -> (2,3) gives bucket 0 -> (3,4).
C14_MergeIsKeywiseUnion ==
    merged # <<>> =>
        /\ merged[1].ab = MergeRefWDL(arg_a, arg_b)
        /\ merged[1].ba = MergeRefWDL(arg_b, arg_a)
        /\ merged[1].a_e = arg_a
        /\ \A f \in {"wins", "draws", "losses"} :
              (/\ 0 \in DOMAIN arg_a[f] /\ arg_a[f][0] = [value |-> 1, total |-> 1]
               /\ 0 \in DOMAIN arg_b[f] /\ arg_b[f][0] = [value |-> 2, total |-> 3])
                  => merged[1].ab[f][0] = [value |-> 3, total |-> 4]

\* Bucket 0 -> (1,1) of the draws was merged with bucket 0 -> (2,3) and
\* bucket 25 -> (0,1), and a non-empty accumulator with the empty one.
C14_Witness ==
    /\ merged # <<>>
    /\ arg_a.draws = (0 :> [value |-> 1, total |-> 1])
    /\ DOMAIN arg_b.draws = {0, 25}
    /\ merged[1].ab.draws =
          (0 :> [value |-> 3, total |-> 4]) @@ (25 :> [value |-> 0, total |-> 1])
    /\ merged[1].a_e = arg_a

\* ---- vocabulary of the claims about the accumulators
\* The accumulators of a state: the one being scanned, the merged one, the
\* presented one.
Accumulators ==
    (IF pc = "scan" THEN {Scanned} ELSE {})
        \cup {total_data} \cup {presented[i] : i \in 1..Len(presented)}

\* C15: every key of the Datasets of a scan, of the merged accumulator and
\* of the presented one is a bucket >= 0 and a multiple of 25 (ratings
\* within 0..MaxRating, unequal).
C15_KeysAreBuckets ==
    \A d \in Accumulators : \A k \in KeysOf(d) : k >= 0 /\ k % 25 = 0

\* White 1712 against Black 1700, both rounded to 1700: bucket 0, with
\* unequal ratings.
C15_Witness ==
    /\ pc = "scan" /\ line = BodyLine /\ counted = "just"
    /\ rating1 = 1712 /\ rating2 = 1700
    /\ DOMAIN wins = {0} /\ DOMAIN draws = {0} /\ DOMAIN losses = {0}

\* C15, for every rating of the range: round_rating is non-negative, a
\* multiple of 25 and does not decrease from a rating to the next, so that
\* the difference of the rounded higher and the rounded lower rating of any
\* pair is a bucket >= 0 and a multiple of 25.
C15_RoundMonotone ==
    rating_out # <<>> =>
        /\ rating_out[1] >= 0 /\ rating_out[1] % 25 = 0
        /\ rating_out[1] <= round_rating(rating_in + 1)
        /\ (round_rating(rating_in + 1) - rating_out[1]) % 25 = 0

\* C16: every Datapoint under a key of a scanned, merged or presented
\* accumulator has successes <= total and total >= 1.
C16_RateDefined ==
    \A d \in Accumulators : \A f \in {"wins", "draws", "losses"} :
        \A k \in DOMAIN d[f] : d[f][k].value <= d[f][k].total /\ d[f][k].total >= 1

\* A presented bucket that holds a Datapoint without any success next to one
\* with nothing but successes.
C16_Witness ==
    /\ pc = "presented" /\ presented # <<>>
    /\ \E k \in DOMAIN presented[1].wins :
          /\ presented[1].wins[k] = [value |-> 0, total |-> 1]
          /\ presented[1].losses[k] = [value |-> 1, total |-> 1]

\* C17 (as claimed): a body line read while the current result is Unknown or
\* Unfinished is discarded: the scan goes on and no Dataset changes, so the
\* "result = Unknown" abort is never reached.
C17_UnknownNeverClassified ==
    [][(ReadsLine(BodyLine) /\ result_white_pov \in {"Unknown", "Unfinished"})
          => (pc' = "scan" /\ UNCHANGED Datasets)]_vars

\* C17, the part that holds: a body line read while the result is Unfinished
\* is discarded.
C17_UnfinishedNeverClassified ==
    [][(ReadsLine(BodyLine) /\ result_white_pov = "Unfinished")
          => (pc' = "scan" /\ UNCHANGED Datasets)]_vars

\* C18: the outcome of a record does not depend on the order of its tag
\* lines.  While the tag lines of a record are read, the parse state is a
\* function of the values the record's tags carry (`own`, which keeps no
\* order): skip of its time control, rating1 of its White rating, rating2 of
\* its Black rating, the result of its result tag; a tag line changes its
\* own variable only, any other tag line changes nothing, and none of them
\* touches the Datasets, so the terminating line finds the same state and
\* leaves the same accumulator whichever the order.
C18_TagOrderIrrelevant ==
    /\ []((pc = "scan" /\ IsTag(line)) =>
             /\ own.tc # "none" => skip = (own.tc = "no")
             /\ own.white # -1 => rating1 = own.white
             /\ own.black # -1 => rating2 = own.black
             /\ own.result # "none" => result_white_pov = own.result)
    /\ [][\A l \in TCLines \cup WhiteLines \cup BlackLines \cup ResultLines \cup OtherLines :
             (ReadsLine(l) /\ pc' = "scan") =>
                 /\ UNCHANGED <<Datasets, total_data>>
                 /\ l.tag # "[TimeControl" => UNCHANGED skip
                 /\ l.tag # "[WhiteElo" => UNCHANGED rating1
                 /\ l.tag # "[BlackElo" => UNCHANGED rating2
                 /\ l.tag # "[Result" => UNCHANGED result_white_pov]_vars

\* The four tags of a record were read with the time control last, after
\* both ratings and the result: the parse state is that of the record.
C18_Witness ==
    /\ input_form = "any" /\ pc = "scan" /\ lines_read = 4
    /\ line = TagLine("[TimeControl", TCText(600, 5))
    /\ own = [tc |-> "yes", white |-> 1700, black |-> 1600, result |-> "Win"]
    /\ ~skip /\ rating1 = 1700 /\ rating2 = 1600 /\ result_white_pov = "Win"

\* C19: in every scanned, merged or presented accumulator wins, draws and
\* losses have the same keys, and for every key the successes of the three
\* Datasets add up to the total: a counted game is a success in exactly one
\* of them.
C19_SuccessesPartitionTotal ==
    \A d \in Accumulators :
        /\ DOMAIN d.wins = DOMAIN d.draws /\ DOMAIN d.draws = DOMAIN d.losses
        /\ \A k \in DOMAIN d.wins :
              d.wins[k].value + d.draws[k].value + d.losses[k].value = d.wins[k].total

\* A presented bucket of two games, one won and one lost by the lower rated
\* player.
C19_Witness ==
    /\ pc = "presented" /\ presented # <<>>
    /\ \E k \in DOMAIN presented[1].wins :
          /\ presented[1].wins[k] = [value |-> 1, total |-> 2]
          /\ presented[1].draws[k] = [value |-> 0, total |-> 2]
          /\ presented[1].losses[k] = [value |-> 1, total |-> 2]

\* The games counted so far in the file: the totals of all buckets.
RECURSIVE SumTotals(_, _)
SumTotals(ds, keys) ==
    IF keys = {} THEN 0
    ELSE LET k == CHOOSE j \in keys : TRUE
         IN  ds[k].total + SumTotals(ds, keys \ {k})

Classified == SumTotals(wins, DOMAIN wins)

\* C20 (as claimed): the games counted in a file never outnumber the
\* qualifying time-control tags read in it.
C20_CountedWithinQualifyingTags ==
    pc = "scan" => Classified <= qualifying_tags

\* C20 (amended): a classification needs skip false and sets it; skip then
\* stays true until a time-control tag with a qualifying value is read, so
\* between two classifications there is such a tag and the games counted
\* outnumber the qualifying tags read by one at most (skip starts false: the
\* first game of a file can be counted before any time-control tag); the
\* record that directly follows a classified one is not counted when it has
\* no time-control tag.
C20_CountedAfterQualifyingTag ==
    /\ [](pc = "scan" => Classified <= qualifying_tags + 1)
    /\ [][(ReadsLine(BodyLine) /\ Datasets' # Datasets) => (~skip /\ skip')]_vars
    /\ [][(pc = "scan" /\ pc' = "scan" /\ skip /\ ~skip')
             => (line'.tag = "[TimeControl" /\ GameTC(line'.val) = "yes")]_vars
    /\ [][(ReadsLine(BodyLine) /\ IsTag(line) /\ follows_counted /\ own.tc = "none")
             => (pc' = "scan" /\ UNCHANGED Datasets)]_vars

\* A game was counted before any time-control tag of the file, then a
\* qualifying tag was read and a second game counted.
C20_Witness ==
    /\ pc = "scan" /\ counted = "just"
    /\ Classified = 2 /\ qualifying_tags = 1

\* A record without a time-control tag came right after a classified one
\* and was read to its terminating line.
C20_FollowerWitness ==
    /\ pc = "scan" /\ line = BodyLine /\ counted = "no"
    /\ follows_counted /\ own.tc = "none" /\ own.white # -1 /\ own.white # rating2
    /\ result_white_pov = "Win" /\ Classified = 1

====
